---- MODULE Spec2Model ----
(***************************************************************************)
(* A model of the Scribe editor facade (src/src/scribe.js): the history    *)
(* gate of pushHistory, restoreFromHistory, the command lookup, the input  *)
(* handler and the content accessors.  Strings of markup are sequences of  *)
(* tokens (a tag or a character each), so that the regular-expression      *)
(* replacements of the source act on them as they act on the text.         *)
(*                                                                         *)
(* The undo manager, the transaction manager and the Selection API are     *)
(* modules scribe.js requires; they are modelled from the specification    *)
(* (sections 3, 4.2, 4.3) at the interface scribe.js uses.                 *)
(***************************************************************************)
EXTENDS Integers, Sequences, FiniteSets, TLC

VARIABLES
  innerHTML,          \* this.el.innerHTML, a sequence of tokens
  selection,          \* caret offset in innerHTML, or NoRange
  allowBlockElements, \* this.options.allowBlockElements
  stack,              \* this.undoManager.stack
  position,           \* this.undoManager.position (0-based)
  recorded,           \* ghost: recorded[i] is innerHTML when stack[i] was pushed
  sincePush,          \* ghost: "never" | "clean" | "dirty" (content edits since the last pushHistory)
  commands,           \* this.commands
  commandPatches,     \* this.commandPatches
  htmlFormatters,     \* this.htmlFormatter.formatters
  dom,                \* the element's listeners, the deferred tasks and the 'deactivated' flag
  last                \* ghost: the last operation, its result, its effects and the state it started from

vars == <<innerHTML, selection, allowBlockElements, stack, position, recorded,
          sincePush, commands, commandPatches, htmlFormatters, dom, last>>

editorVars == <<innerHTML, selection, stack, position, recorded, sincePush>>
registryVars == <<commands, commandPatches>>

----------------------------------------------------------------------------
(* Bounds *)

MaxStack == 2
MaxStages == 2
MaxNested == 1
MaxVersions == 1
MaxFocus == 2

----------------------------------------------------------------------------
(* Tokens *)

MarkerOpen == "<em class=\"scribe-marker\">"
EmOpen == "<em>"
EmClose == "</em>"
Br == "<br>"
Nbsp == "&nbsp;"
Space == " "
NoRange == -1

Marker == <<MarkerOpen, EmClose>>

Min(a, b) == IF a < b THEN a ELSE b

\* The texts an edit can leave in the element: none, plain text and text
\* inside a genuine <em> element.
Texts == {<<>>, <<"a">>, <<EmOpen, "a", EmClose>>}

\* A text with a non-breaking space, which the html formatter rewrites.
NbspTexts == {<<"a", Nbsp>>}

----------------------------------------------------------------------------
(* String helpers: the replacements the source performs *)

\* s.replace(/t/g, '') for each token t of T
RemoveTokens(s, T) == SelectSeq(s, LAMBDA t : t \notin T)

\* s with every marker token <em class="scribe-marker"></em> removed, and
\* nothing else
RECURSIVE StripMarkers(_)
StripMarkers(s) ==
  IF s = <<>> THEN <<>>
  ELSE IF Len(s) >= 2 /\ s[1] = MarkerOpen /\ s[2] = EmClose
       THEN StripMarkers(SubSeq(s, 3, Len(s)))
       ELSE <<s[1]>> \o StripMarkers(Tail(s))

HasMarker(s) == \E i \in 1..Len(s) : s[i] = MarkerOpen

\* offset of the first marker token of s
MarkerOffset(s) == (CHOOSE i \in 1..Len(s) : s[i] = MarkerOpen /\ \A j \in 1..(i - 1) : s[j] # MarkerOpen) - 1

InsertAt(s, i, m) == SubSeq(s, 1, i) \o m \o SubSeq(s, i + 1, Len(s))

----------------------------------------------------------------------------
(* Selection API (api.Selection): modelled from the specification *)

\* selection.rangeCount / selection.range: a range exists
HasRange(sel) == sel # NoRange

\* selection.placeMarkers(): a marker token at the caret
PlaceMarkers(html, sel) == InsertAt(html, sel, Marker)

\* selection.removeMarkers()
RemoveMarkers(html) == StripMarkers(html)

\* selection.selectMarkers(): the caret goes to the marker, the markers are
\* stripped; replaced content without markers leaves no range
SelectMarkers(html) ==
  [html |-> StripMarkers(html),
   selection |-> IF HasMarker(html) THEN MarkerOffset(html) ELSE NoRange]

----------------------------------------------------------------------------
(* Content accessors *)

\* Scribe.prototype.getHTML
GetHTML(html) == html

\* Scribe.prototype.getContent: this.getHTML().replace(/<br>$/, '')
GetContent(html) ==
  IF Len(html) > 0 /\ html[Len(html)] = Br
  THEN SubSeq(html, 1, Len(html) - 1)
  ELSE html

\* What the element holds for a text: inline mode keeps a bogus <br> at the end
ElementHTML(text, allowBlock) == IF allowBlock THEN text ELSE text \o <<Br>>

----------------------------------------------------------------------------
(* Formatter *)

Stages == {"replaceNbspChars", "collapseSpaces"}

\* one pipeline stage, a function from string to string
ApplyStage(f, s) ==
  IF f = "replaceNbspChars"
  THEN [i \in 1..Len(s) |-> IF s[i] = Nbsp THEN Space ELSE s[i]]
  ELSE RemoveTokens(s, {Space})

\* format that reduces from the right: the last stage registered runs first
RECURSIVE FormatRightToLeft(_, _)
FormatRightToLeft(formatters, html) ==
  IF formatters = <<>> THEN html
  ELSE ApplyStage(Head(formatters), FormatRightToLeft(Tail(formatters), html))

\* Formatter.prototype.format: reduce over the stages, left to right
RECURSIVE Format(_, _)
Format(formatters, html) ==
  IF formatters = <<>> THEN html
  ELSE Format(Tail(formatters), ApplyStage(Head(formatters), html))

----------------------------------------------------------------------------
(* Undo manager (undo-manager.js): modelled from the specification, 4.3 *)

\* stack[position], or "undefined" past the ends
HasItem(stk, pos) == (pos + 1) \in DOMAIN stk

\* undoManager.push(snapshot): rejected when the snapshot equals the entry
\* at position once marker tokens are ignored; otherwise the entries after
\* position are dropped, the snapshot is appended and position points at it
UndoManagerPush(stk, pos, snapshot) ==
  IF HasItem(stk, pos) /\ StripMarkers(snapshot) = StripMarkers(stk[pos + 1])
  THEN [ok |-> FALSE, stack |-> stk, position |-> pos]
  ELSE LET kept == SubSeq(stk, 1, Min(pos + 1, Len(stk)))
       IN [ok |-> TRUE, stack |-> Append(kept, snapshot), position |-> Len(kept)]

\* undo() that steps back from position 0 as well
UndoManagerUndoNoBoundary(stk, pos) ==
  IF pos >= 0 /\ stk # <<>>
  THEN [found |-> TRUE, position |-> IF pos > 0 THEN pos - 1 ELSE 0]
  ELSE [found |-> FALSE, position |-> pos]

\* undoManager.undo(): null at position 0
UndoManagerUndo(stk, pos) ==
  IF pos > 0
  THEN [found |-> TRUE, position |-> pos - 1]
  ELSE [found |-> FALSE, position |-> pos]

\* undoManager.redo(): null at the last index
UndoManagerRedo(stk, pos) ==
  IF pos < Len(stk) - 1
  THEN [found |-> TRUE, position |-> pos + 1]
  ELSE [found |-> FALSE, position |-> pos]

----------------------------------------------------------------------------
(* Scribe.prototype.pushHistory *)

\* previousUndoItem is truthy: an entry exists and is not the empty string
Truthy(stk, pos) == HasItem(stk, pos) /\ stk[pos + 1] # <<>>

\* previousUndoItem.replace(/<em class="scribe-marker">/g, '').replace(/<\/em>/g, '')
PreviousContent(item) == RemoveTokens(RemoveTokens(item, {MarkerOpen}), {EmClose})

\* the condition without its first disjunct: nothing is pushed on an empty history
ContentChangedNoEmptyCase(html, stk, pos) ==
  Truthy(stk, pos) /\ GetContent(html) # PreviousContent(stk[pos + 1])

\* the condition of the if: the history is pushed when it holds
ContentChanged(html, stk, pos) ==
  \/ ~Truthy(stk, pos)
  \/ (Truthy(stk, pos) /\ GetContent(html) # PreviousContent(stk[pos + 1]))

\* the html read after the markers were removed again
SnapshotHTMLAfterRemove(html, sel) ==
  IF HasRange(sel) THEN GetHTML(RemoveMarkers(PlaceMarkers(html, sel))) ELSE GetHTML(html)

\* the html pushed: read between placeMarkers and removeMarkers
SnapshotHTML(html, sel) ==
  IF HasRange(sel) THEN GetHTML(PlaceMarkers(html, sel)) ELSE GetHTML(html)

\* the calls pushHistory makes on the selection and the undo manager
PushHistoryEffects(sel) ==
  IF HasRange(sel) THEN <<"placeMarkers", "removeMarkers", "push">> ELSE <<"push">>

\* a pushHistory that leaves the markers of the snapshot in the element
PushHistoryKeepsMarkers(html, sel, stk, pos) ==
  IF ContentChanged(html, stk, pos)
  THEN LET snapshot == SnapshotHTML(html, sel)
           pushed == UndoManagerPush(stk, pos, snapshot)
       IN [ret |-> TRUE, stack |-> pushed.stack, position |-> pushed.position,
           pushed |-> pushed.ok, html |-> snapshot,
           effects |-> <<"placeMarkers", "push">>]
  ELSE [ret |-> FALSE, stack |-> stk, position |-> pos, pushed |-> FALSE, html |-> html,
        effects |-> <<>>]

\* the whole method: its return value, the undo manager after it, whether
\* the undo manager took the snapshot, the element's html after it, and
\* the calls it made
PushHistory(html, sel, stk, pos) ==
  IF ContentChanged(html, stk, pos)
  THEN LET snapshot == SnapshotHTML(html, sel)
           pushed == UndoManagerPush(stk, pos, snapshot)
       IN [ret |-> TRUE, stack |-> pushed.stack, position |-> pushed.position,
           pushed |-> pushed.ok,
           html |-> IF HasRange(sel) THEN RemoveMarkers(PlaceMarkers(html, sel)) ELSE html,
           effects |-> PushHistoryEffects(sel)]
  ELSE [ret |-> FALSE, stack |-> stk, position |-> pos, pushed |-> FALSE, html |-> html,
        effects |-> <<>>]

----------------------------------------------------------------------------
(* Scribe.prototype.getCommand *)

NoCommand == <<"none">>
CommandNames == {"bold", "indent", "undo", "italic"}

DefaultCommand(name) == <<"default", name>>

\* the lookup with the two registries in the other order
GetCommandPatchFirst(cmds, patches, name) ==
  IF patches[name] # NoCommand THEN patches[name]
  ELSE IF cmds[name] # NoCommand THEN cmds[name]
  ELSE DefaultCommand(name)

\* the lookup without its last operand: nothing is returned for a name
\* registered nowhere
GetCommandNoDefault(cmds, patches, name) ==
  IF cmds[name] # NoCommand THEN cmds[name]
  ELSE IF patches[name] # NoCommand THEN patches[name]
  ELSE NoCommand

\* this.commands[name] || this.commandPatches[name] || new this.api.Command(name)
GetCommand(cmds, patches, name) ==
  IF cmds[name] # NoCommand THEN cmds[name]
  ELSE IF patches[name] # NoCommand THEN patches[name]
  ELSE DefaultCommand(name)

----------------------------------------------------------------------------
(* Scribe.prototype.restoreFromHistory *)

\* restoreFromHistory that notifies before the selection is restored
RestoreFromHistoryNotifyFirst(historyItem) ==
  LET selected == SelectMarkers(historyItem)
  IN [html |-> selected.html, selection |-> selected.selection,
      effects |-> <<"setHTML", "content-changed", "selectMarkers">>]

\* restoreFromHistory that writes the item stripped the way the gate of
\* pushHistory strips it
RestoreFromHistoryLooseStrip(historyItem) ==
  LET written == RemoveTokens(historyItem, {MarkerOpen, EmClose})
  IN [html |-> written, selection |-> NoRange,
      effects |-> <<"setHTML", "selectMarkers", "content-changed">>]

\* setHTML(historyItem); selection.selectMarkers(); trigger('content-changed')
RestoreFromHistory(historyItem) ==
  LET written == historyItem
      selected == SelectMarkers(written)
  IN [html |-> selected.html, selection |-> selected.selection,
      effects |-> <<"setHTML", "selectMarkers", "content-changed">>]

----------------------------------------------------------------------------
(* Transaction manager (transaction-manager.js): modelled from the        *)
(* specification, 4.2 and the data flow of section 2                      *)

\* run(): from Idle, the pipeline is applied to the content and written
\* back, the history is pushed and one content-changed is emitted; `nested`
\* re-entrant calls arrive while it is Running and are no-ops
TransactionManagerRun(e, formatters, nested) ==
  LET formatted == Format(formatters, e.html)
      caret == IF HasRange(e.selection) THEN Min(e.selection, Len(formatted)) ELSE NoRange
      pushed == PushHistory(formatted, caret, e.stack, e.position)
  IN [html |-> pushed.html, selection |-> caret,
      stack |-> pushed.stack, position |-> pushed.position,
      pushed |-> pushed.pushed,
      effects |-> <<"run">> \o [i \in 1..nested |-> "nested-run"] \o <<"content-changed">>]

----------------------------------------------------------------------------
(* handleInput, the listener of the element's 'input' event *)

\* a listener that runs the transaction manager twice
HandleInputTwice(e, formatters, nested) ==
  LET r1 == TransactionManagerRun(e, formatters, nested)
      r2 == TransactionManagerRun([html |-> r1.html, selection |-> r1.selection,
                                   stack |-> r1.stack, position |-> r1.position],
                                  formatters, nested)
  IN [r2 EXCEPT !.effects = r1.effects \o r2.effects, !.pushed = r1.pushed \/ r2.pushed]

\* this.transactionManager.run()
HandleInput(e, formatters, nested) == TransactionManagerRun(e, formatters, nested)

----------------------------------------------------------------------------
(* The element's listeners and the 'deactivated' event *)

\* el.addEventListener in the constructor: <<event type, listener>>
ConstructorListeners ==
  {<<"input", "handleInput">>, <<"focus", "placeCaretOnFocus">>,
   <<"focus", "pushHistoryOnFocus">>}

\* el.removeEventListener(type, listener): the pair goes, if it is there
RemoveEventListener(listeners, type, listener) == listeners \ {<<type, listener>>}

\* a focus listener that schedules the push and stays attached
PushHistoryOnFocusStays(d) ==
  [dom |-> [d EXCEPT !.pending = @ + 1], effects |-> <<"setTimeout">>]

\* pushHistoryOnFocus: setTimeout(pushHistory, 0), then the listener removes
\* itself
PushHistoryOnFocus(d) ==
  [dom |-> [d EXCEPT !.pending = @ + 1,
                     !.listeners = RemoveEventListener(@, "focus", "pushHistoryOnFocus")],
   effects |-> <<"setTimeout">>]

\* the offset inside the first deepest child of the content: past the tags
\* that open it
RECURSIVE FirstDeepestChild(_)
FirstDeepestChild(html) ==
  IF html # <<>> /\ Head(html) = EmOpen THEN 1 + FirstDeepestChild(Tail(html)) ELSE 0

\* placeCaretOnFocus: with a range, in block mode, a caret before the
\* content is placed into its first deepest child (nothing to place it in
\* when the element is empty)
PlaceCaretOnFocus(html, sel, allowBlock) ==
  IF HasRange(sel) /\ allowBlock /\ sel = 0 /\ html # <<>>
  THEN FirstDeepestChild(html)
  ELSE sel

\* the three listeners of 'deactivated', in the order they were registered:
\* removeEventListener('keypress', handleInput), then the two focus listeners
OnDeactivated(d) ==
  LET l1 == RemoveEventListener(d.listeners, "keypress", "handleInput")
      l2 == RemoveEventListener(l1, "focus", "placeCaretOnFocus")
      l3 == RemoveEventListener(l2, "focus", "pushHistoryOnFocus")
  IN [d EXCEPT !.listeners = l3, !.deactivated = TRUE]

----------------------------------------------------------------------------
(* Scribe.prototype.setContent *)

\* a setContent that appends the <br> in block mode too
SetContentAlwaysBr(content, allowBlock, formatters) ==
  [html |-> Format(formatters, content \o <<Br>>), effects |-> <<"setHTML", "content-changed">>]

SetContentResult(content, allowBlock, formatters) ==
  LET c == IF ~allowBlock THEN content \o <<Br>> ELSE content
  IN [html |-> Format(formatters, c), effects |-> <<"setHTML", "content-changed">>]

----------------------------------------------------------------------------
(* State *)

Editor == [html |-> innerHTML, selection |-> selection, stack |-> stack, position |-> position]

\* the carets a selection can hold in html
Carets(html) == 0..Len(html)

\* what `last` keeps of the state an operation started from: all of it for
\* pushHistory, the history alone for the others
Pre == [html |-> innerHTML, selection |-> selection, stack |-> stack,
        position |-> position, sincePush |-> sincePush]

PreHistory == [html |-> <<>>, selection |-> NoRange, stack |-> stack,
               position |-> position, sincePush |-> sincePush]

Last(op, arg, ret, pushed, effects, pre) ==
  [op |-> op, arg |-> arg, ret |-> ret, pushed |-> pushed, effects |-> effects, pre |-> pre]

True == <<"true">>
False == <<"false">>
Null == <<"null">>
Undefined == <<"undefined">>

\* the ghost sincePush after the content went from old to new
Touched(old, new) ==
  IF sincePush = "never" \/ old = new THEN sincePush ELSE "dirty"

\* the ghost recorded after a pushHistory that left the stack as stk
Recorded(stk, pushed, html) ==
  IF pushed THEN Append(SubSeq(recorded, 1, Len(stk) - 1), html) ELSE recorded

\* The constructor: the core plugins register the patches bold, indent, ...
\* and the commands indent, ..., undo; the html formatter gets
\* replaceNbspChars; the history is empty; the listeners of 'input' and
\* 'focus' are attached and no task is pending
Init ==
  /\ allowBlockElements \in BOOLEAN
  /\ innerHTML \in {ElementHTML(t, allowBlockElements) : t \in Texts}
  /\ selection = NoRange
  /\ stack = <<>>
  /\ position = 0
  /\ recorded = <<>>
  /\ sincePush = "never"
  /\ commands = [n \in CommandNames |->
                   IF n \in {"indent", "undo"} THEN <<"plugin", n, 0>> ELSE NoCommand]
  /\ commandPatches = [n \in CommandNames |->
                   IF n \in {"bold", "indent"} THEN <<"patch", n, 0>> ELSE NoCommand]
  /\ htmlFormatters = <<"replaceNbspChars">>
  /\ dom = [listeners |-> ConstructorListeners, pending |-> 0, deactivated |-> FALSE,
            focusEvents |-> 0, focusPushes |-> 0]
  /\ last = [op |-> "construct", arg |-> <<>>, ret |-> Undefined, pushed |-> FALSE,
             effects |-> <<>>,
             pre |-> [html |-> <<>>, selection |-> NoRange, stack |-> <<>>,
                      position |-> 0, sincePush |-> "never"]]

----------------------------------------------------------------------------
(* Operations *)

\* The selection changes (a click, an arrow key, a blur): no content change
Select(c) ==
  /\ c # selection
  /\ selection' = c
  /\ last' = Last("select", <<>>, Undefined, FALSE, <<>>, PreHistory)
  /\ UNCHANGED <<innerHTML, allowBlockElements, dom, stack, position, recorded, sincePush,
                 commands, commandPatches, htmlFormatters>>

\* scribe.pushHistory()
PushHistoryCall ==
  LET r == PushHistory(innerHTML, selection, stack, position)
  IN /\ Len(r.stack) <= MaxStack
     /\ innerHTML' = r.html
     /\ stack' = r.stack
     /\ position' = r.position
     /\ recorded' = Recorded(r.stack, r.pushed, innerHTML)
     /\ sincePush' = "clean"
     /\ last' = Last("pushHistory", <<>>, IF r.ret THEN True ELSE False, r.pushed, r.effects, Pre)
     /\ UNCHANGED <<selection, allowBlockElements, dom, commands, commandPatches, htmlFormatters>>

\* scribe.restoreFromHistory(stack[i])
RestoreCall(i) ==
  LET r == RestoreFromHistory(stack[i])
  IN /\ innerHTML' = r.html
     /\ selection' = r.selection
     /\ sincePush' = Touched(innerHTML, r.html)
     /\ last' = Last("restoreFromHistory", <<i>>, Undefined, FALSE, r.effects, PreHistory)
     /\ UNCHANGED <<allowBlockElements, dom, stack, position, recorded,
                    commands, commandPatches, htmlFormatters>>

\* The undo command: undoManager.undo(), and restoreFromHistory of what it returns
UndoCommand ==
  LET u == UndoManagerUndo(stack, position)
      r == RestoreFromHistory(stack[u.position + 1])
  IN /\ position' = u.position
     /\ IF u.found
        THEN /\ innerHTML' = r.html
             /\ selection' = r.selection
             /\ sincePush' = Touched(innerHTML, r.html)
             /\ last' = Last("undo", <<>>, stack[u.position + 1], FALSE, r.effects, PreHistory)
        ELSE /\ UNCHANGED <<innerHTML, selection, sincePush>>
             /\ last' = Last("undo", <<>>, Null, FALSE, <<>>, PreHistory)
     /\ UNCHANGED <<allowBlockElements, dom, stack, recorded, commands, commandPatches, htmlFormatters>>

\* The redo command: undoManager.redo(), and restoreFromHistory of what it returns
RedoCommand ==
  LET u == UndoManagerRedo(stack, position)
      r == RestoreFromHistory(stack[u.position + 1])
  IN /\ position' = u.position
     /\ IF u.found
        THEN /\ innerHTML' = r.html
             /\ selection' = r.selection
             /\ sincePush' = Touched(innerHTML, r.html)
             /\ last' = Last("redo", <<>>, stack[u.position + 1], FALSE, r.effects, PreHistory)
        ELSE /\ UNCHANGED <<innerHTML, selection, sincePush>>
             /\ last' = Last("redo", <<>>, Null, FALSE, <<>>, PreHistory)
     /\ UNCHANGED <<allowBlockElements, dom, stack, recorded, commands, commandPatches, htmlFormatters>>

\* scribe.setContent(content)
SetContent(content) ==
  LET r == SetContentResult(content, allowBlockElements, htmlFormatters)
  IN /\ innerHTML' = r.html
     /\ selection' = NoRange
     /\ sincePush' = Touched(innerHTML, r.html)
     /\ last' = Last("setContent", content, Undefined, FALSE, r.effects, PreHistory)
     /\ UNCHANGED <<allowBlockElements, dom, stack, position, recorded,
                    commands, commandPatches, htmlFormatters>>

\* A native 'input' event: the browser has changed the element to hold
\* `text` with the caret at `caret`, and the listener handleInput runs
NativeInput(text, caret, nested) ==
  LET typed == ElementHTML(text, allowBlockElements)
  IN /\ caret \in Carets(typed)
     /\ \E r \in {HandleInput([html |-> typed, selection |-> caret, stack |-> stack,
                                position |-> position], htmlFormatters, nested)} :
          /\ Len(r.stack) <= MaxStack
          /\ innerHTML' = r.html
          /\ selection' = r.selection
          /\ stack' = r.stack
          /\ position' = r.position
          /\ recorded' = Recorded(r.stack, r.pushed, r.html)
          /\ sincePush' = "clean"
          /\ last' = Last("input", text, Undefined, r.pushed, r.effects, PreHistory)
     /\ UNCHANGED <<allowBlockElements, dom, commands, commandPatches, htmlFormatters>>

\* A 'focus' event on the element: its listeners run in the order they
\* were added, placeCaretOnFocus then pushHistoryOnFocus
Focus ==
  LET placed == IF <<"focus", "placeCaretOnFocus">> \in dom.listeners
                THEN PlaceCaretOnFocus(innerHTML, selection, allowBlockElements)
                ELSE selection
      counted == [dom EXCEPT !.focusEvents = @ + 1]
      r == IF <<"focus", "pushHistoryOnFocus">> \in dom.listeners
           THEN PushHistoryOnFocus(counted)
           ELSE [dom |-> counted, effects |-> <<>>]
  IN /\ dom.focusEvents < MaxFocus
     /\ selection' = placed
     /\ dom' = r.dom
     /\ last' = Last("focus", <<>>, Undefined, FALSE, r.effects, PreHistory)
     /\ UNCHANGED <<innerHTML, allowBlockElements, stack, position, recorded, sincePush,
                    commands, commandPatches, htmlFormatters>>

\* The task setTimeout deferred runs in a later turn: this.pushHistory()
DeferredPush ==
  LET r == PushHistory(innerHTML, selection, stack, position)
  IN /\ dom.pending > 0
     /\ Len(r.stack) <= MaxStack
     /\ innerHTML' = r.html
     /\ stack' = r.stack
     /\ position' = r.position
     /\ recorded' = Recorded(r.stack, r.pushed, innerHTML)
     /\ sincePush' = "clean"
     /\ dom' = [dom EXCEPT !.pending = @ - 1, !.focusPushes = @ + 1]
     /\ last' = Last("deferredPush", <<>>, IF r.ret THEN True ELSE False, r.pushed, r.effects, Pre)
     /\ UNCHANGED <<selection, allowBlockElements, commands, commandPatches, htmlFormatters>>

\* scribe.trigger('deactivated')
Deactivate ==
  /\ dom' = OnDeactivated(dom)
  /\ last' = Last("deactivated", <<>>, Undefined, FALSE, <<>>, PreHistory)
  /\ UNCHANGED <<editorVars, allowBlockElements, commands, commandPatches, htmlFormatters>>

\* A native 'input' event on an element whose listener may have been
\* removed: the browser has changed the content either way
InputEvent(text, caret) ==
  IF <<"input", "handleInput">> \in dom.listeners
  THEN NativeInput(text, caret, 0)
  ELSE LET typed == ElementHTML(text, allowBlockElements)
       IN /\ caret \in Carets(typed)
          /\ innerHTML' = typed
          /\ selection' = caret
          /\ sincePush' = Touched(innerHTML, typed)
          /\ last' = Last("input", text, Undefined, FALSE, <<>>, PreHistory)
          /\ UNCHANGED <<allowBlockElements, dom, stack, position, recorded,
                         commands, commandPatches, htmlFormatters>>

\* scribe.use(plugin), the plugin setting scribe.commands[name]
UseCommand(name, v) ==
  /\ commands' = [commands EXCEPT ![name] = <<"plugin", name, v>>]
  /\ last' = Last("useCommand", <<name>>, Undefined, FALSE, <<>>, PreHistory)
  /\ UNCHANGED <<editorVars, allowBlockElements, dom, commandPatches, htmlFormatters>>

\* scribe.use(plugin), the plugin setting scribe.commandPatches[name]
UsePatch(name, v) ==
  /\ commandPatches' = [commandPatches EXCEPT ![name] = <<"patch", name, v>>]
  /\ last' = Last("usePatch", <<name>>, Undefined, FALSE, <<>>, PreHistory)
  /\ UNCHANGED <<editorVars, allowBlockElements, dom, commands, htmlFormatters>>

\* scribe.getCommand(name)
GetCommandCall(name) ==
  /\ last' = Last("getCommand", <<name>>, GetCommand(commands, commandPatches, name),
                  FALSE, <<>>, PreHistory)
  /\ UNCHANGED <<editorVars, allowBlockElements, dom, commands, commandPatches, htmlFormatters>>

\* scribe.use(plugin), the plugin adding a stage to scribe.htmlFormatter.formatters
UseHtmlFormatter(f) ==
  /\ Len(htmlFormatters) < MaxStages
  /\ htmlFormatters' = Append(htmlFormatters, f)
  /\ last' = Last("useFormatter", <<f>>, Undefined, FALSE, <<>>, PreHistory)
  /\ UNCHANGED <<editorVars, allowBlockElements, dom, commands, commandPatches>>

Next ==
  \/ \E c \in {NoRange} \cup Carets(innerHTML) : Select(c)
  \/ PushHistoryCall
  \/ \E i \in DOMAIN stack : RestoreCall(i)
  \/ UndoCommand
  \/ RedoCommand
  \/ \E t \in Texts : SetContent(t)

Spec == Init /\ [][Next]_vars

----------------------------------------------------------------------------
(* The constructor's handling of its options argument *)

Unset == "undefined"
OptionKeys == {"allowBlockElements", "debug", "targetWindow", "spellcheck"}

\* an object with no property set
EmptyObject == [k \in OptionKeys |-> Unset]

\* The options arguments: omitted (undefined), or an object that may set the
\* two recognized options, a targetWindow, an unrecognized option
\* ("spellcheck") and a value of the wrong type (debug: "yes")
OptionsArguments ==
  {[given |-> FALSE, props |-> EmptyObject]}
    \cup {[given |-> TRUE,
           props |-> [allowBlockElements |-> a, debug |-> d, targetWindow |-> w, spellcheck |-> u]] :
            a \in {Unset, "true", "false"}, d \in {Unset, "true", "false", "yes"},
            w \in {Unset, "iframe"}, u \in {Unset, "on"}}

\* lodash defaults(object, source): the properties of object that are
\* undefined take source's value
Defaults(object, source) ==
  [k \in OptionKeys |-> IF object[k] = Unset /\ k \in DOMAIN source THEN source[k] ELSE object[k]]

DefaultOptions == [allowBlockElements |-> "true", debug |-> "false"]

\* a constructor that rejects what it does not recognize
ConstructorValidating(o) ==
  LET opts == Defaults(IF o.given THEN o.props ELSE EmptyObject, DefaultOptions)
  IN IF ~o.given
     THEN [completed |-> FALSE, error |-> "TypeError", options |-> opts, targetWindow |-> Unset]
     ELSE IF o.props["spellcheck"] # Unset \/ o.props["debug"] \notin {Unset, "true", "false"}
     THEN [completed |-> FALSE, error |-> "ConfigurationError", options |-> opts,
           targetWindow |-> Unset]
     ELSE [completed |-> TRUE, error |-> "none", options |-> opts,
           targetWindow |-> IF o.props["targetWindow"] # Unset
                            THEN o.props["targetWindow"] ELSE "window"]

\* function Scribe(el, options): this.options = defaults(options || {}, ...),
\* then this.targetWindow = options.targetWindow || window, which throws a
\* TypeError when options is undefined
Constructor(o) ==
  LET opts == Defaults(IF o.given THEN o.props ELSE EmptyObject, DefaultOptions)
  IN IF ~o.given
     THEN [completed |-> FALSE, error |-> "TypeError", options |-> opts, targetWindow |-> Unset]
     ELSE [completed |-> TRUE, error |-> "none", options |-> opts,
           targetWindow |-> IF o.props["targetWindow"] # Unset
                            THEN o.props["targetWindow"] ELSE "window"]

\* new Scribe(el, o) for another element: its outcome
Construct(o) ==
  /\ last' = Last("new", o, Constructor(o), FALSE, <<>>, PreHistory)
  /\ UNCHANGED <<editorVars, allowBlockElements, dom, commands, commandPatches, htmlFormatters>>

NextConstruct == \E o \in OptionsArguments : Construct(o)

SpecConstruct == Init /\ [][NextConstruct]_vars

----------------------------------------------------------------------------
(* Formatter.prototype.format on a Formatter of its own *)

\* The lists of stages a Formatter can hold, none included (new Formatter())
StageLists == UNION {[1..n -> Stages] : n \in 0..MaxStages}

\* The strings formatted: with a non-breaking space, with a space, without
FormatInputs == {<<>>, <<"a">>, <<"a", Nbsp>>, <<"a", Space>>, <<Nbsp, "a", Space>>}

\* formatter.format(html) on a Formatter whose this.formatters is fs: what
\* it returns and this.formatters after the call
FormatCallResult(fs, html) == [html |-> Format(fs, html), formatters |-> fs]

FormatCall(fs, html) ==
  /\ last' = Last("format", <<fs, html>>, FormatCallResult(fs, html), FALSE, <<>>, PreHistory)
  /\ UNCHANGED <<editorVars, allowBlockElements, dom, commands, commandPatches, htmlFormatters>>

NextFormat == \E fs \in StageLists : \E html \in FormatInputs : FormatCall(fs, html)

SpecFormat == Init /\ [][NextFormat]_vars

\* The command registry on its own
NextCommands ==
  \/ \E n \in CommandNames : \E v \in 1..MaxVersions : UseCommand(n, v)
  \/ \E n \in CommandNames : \E v \in 1..MaxVersions : UsePatch(n, v)
  \/ \E n \in CommandNames : GetCommandCall(n)

SpecCommands == Init /\ [][NextCommands]_vars

\* Input events under pipelines of several stages, with re-entrant runs
NextInput ==
  \/ \E f \in Stages : UseHtmlFormatter(f)
  \/ \E t \in Texts \cup NbspTexts : \E c \in {0, Len(t)} : \E k \in 0..MaxNested :
       NativeInput(t, c, k)

SpecInput == Init /\ [][NextInput]_vars

\* Focus, the deferred push and deactivation, in every order
NextFocus ==
  \/ Focus
  \/ DeferredPush
  \/ Deactivate
  \/ \E t \in Texts : InputEvent(t, 0)
  \/ \E c \in {NoRange, 0} : Select(c)

SpecFocus == Init /\ [][NextFocus]_vars

\* the contents given to setContent: with and without a <br> of their own
\* at the end, with a space character reference
Contents == Texts \cup NbspTexts \cup {<<Br>>, <<"a", Br>>}

\* setContent over these contents, between pushes, under grown pipelines
NextContent ==
  \/ \E t \in Contents : SetContent(t)
  \/ PushHistoryCall
  \/ \E f \in Stages : UseHtmlFormatter(f)

SpecContent == Init /\ [][NextContent]_vars

----------------------------------------------------------------------------
(* Properties *)

Count(seq, x) == Cardinality({i \in DOMAIN seq : seq[i] = x})

BothRegistered(n) == commands[n] # NoCommand /\ commandPatches[n] # NoCommand

C2_SecondPushReturnsFalse ==
  (last.op = "pushHistory" /\ last.pre.sincePush = "clean") =>
    (last.ret = False /\ ~last.pushed /\ stack = last.pre.stack)

\* C3, as stated: pushHistory() returns true exactly when the undo stack
\* took a new entry during the call.
C3_ReturnsWhetherPushed ==
  last.op = "pushHistory" => (last.ret = True <=> last.pushed)

\* C4, as stated: the gate of pushHistory() takes the content and the
\* snapshot at position for equal exactly when they are identical once the
\* marker tokens, and only they, are removed.  Stated for block mode and
\* non-empty content, where neither the bogus <br> nor an empty snapshot
\* takes part in the comparison.
C4_GateStripsMarkersOnly ==
  (/\ last.op = "pushHistory"
   /\ HasItem(last.pre.stack, last.pre.position)
   /\ allowBlockElements
   /\ last.pre.html # <<>>) =>
    (last.ret = False <=>
       StripMarkers(last.pre.html) = StripMarkers(last.pre.stack[last.pre.position + 1]))

\* C5: one 'input' event invokes transactionManager.run() once and delivers
\* one content-changed, for every number of stages and of re-entrant runs.
C5_OneRunOneNotification ==
  last.op = "input" =>
    (Count(last.effects, "run") = 1 /\ Count(last.effects, "content-changed") = 1)

\* C5 witness: an input handled under a pipeline of several stages with a
\* re-entrant run
C5_Witness ==
  /\ last.op = "input"
  /\ Len(htmlFormatters) > 1
  /\ Count(last.effects, "nested-run") > 0
  /\ Count(last.effects, "content-changed") = 1

\* C6: a non-empty history has 0 <= position < length; the history is empty
\* only before the first pushHistory, which finds no entry and pushes.
C6_PositionInRange ==
  /\ stack # <<>> => (0 <= position /\ position < Len(stack))
  /\ stack = <<>> => sincePush = "never"
  /\ (last.op = "pushHistory" /\ last.pre.stack = <<>>) =>
       (last.ret = True /\ last.pushed /\ Len(stack) = 1 /\ position = 0)

\* C6 witness: a redo has moved the position inside a history of several entries
C6_Witness ==
  /\ last.op = "redo"
  /\ last.ret # Null
  /\ Len(stack) >= 2
  /\ position = Len(stack) - 1

\* C7: a push at position k below the last index leaves S0..Sk followed by
\* the new snapshot, the position on the new snapshot.
C7_RedoTruncation ==
  (last.op = "pushHistory" /\ last.pushed /\ last.pre.position < Len(last.pre.stack) - 1) =>
    LET X == IF last.pre.selection = NoRange THEN last.pre.html
             ELSE InsertAt(last.pre.html, last.pre.selection, Marker)
    IN /\ stack = Append(SubSeq(last.pre.stack, 1, last.pre.position + 1), X)
       /\ position = Len(stack) - 1

\* C7 witness: a push after an undo, with a caret, that dropped an entry
C7_Witness ==
  /\ last.op = "pushHistory"
  /\ last.pushed
  /\ last.pre.position < Len(last.pre.stack) - 1
  /\ last.pre.selection # NoRange
  /\ Len(stack) = last.pre.position + 2

\* C8: undo at position 0 and redo at the last index return null and change
\* nothing; otherwise they move the position by one and return the snapshot
\* there; neither alters the stack.
C8_UndoRedoBoundaries ==
  /\ last.op = "undo" =>
       /\ stack = last.pre.stack
       /\ IF last.pre.position = 0
          THEN last.ret = Null /\ position = last.pre.position
          ELSE position = last.pre.position - 1 /\ last.ret = stack[position + 1]
  /\ last.op = "redo" =>
       /\ stack = last.pre.stack
       /\ IF last.pre.position >= Len(last.pre.stack) - 1
          THEN last.ret = Null /\ position = last.pre.position
          ELSE position = last.pre.position + 1 /\ last.ret = stack[position + 1]

\* C8 witness: an undo at position 0 of a non-empty history returned null
C8_Witness ==
  /\ last.op = "undo"
  /\ last.ret = Null
  /\ stack # <<>>
  /\ position = 0

\* C9: restoreFromHistory writes the snapshot, restores the selection from
\* its markers and emits one content-changed, in that order, and leaves the
\* history alone.
C9_RestoreFromHistory ==
  last.op = "restoreFromHistory" =>
    LET item == stack[last.arg[1]]
    IN /\ innerHTML = StripMarkers(item)
       /\ HasMarker(item) => selection = MarkerOffset(item)
       /\ last.effects = <<"setHTML", "selectMarkers", "content-changed">>
       /\ stack = last.pre.stack
       /\ position = last.pre.position

\* C9 witness: a snapshot with a marker was restored
C9_Witness ==
  /\ last.op = "restoreFromHistory"
  /\ HasMarker(stack[last.arg[1]])
  /\ selection # NoRange

\* C10: restoring a snapshot leaves the content the editor held when
\* pushHistory recorded it, marker tokens aside.
C10_RoundTrip ==
  last.op = "restoreFromHistory" =>
    StripMarkers(innerHTML) = StripMarkers(recorded[last.arg[1]])

\* C10 witness: a snapshot of content with a genuine <em>, recorded with a
\* caret, was restored over other content
C10_Witness ==
  /\ last.op = "restoreFromHistory"
  /\ HasMarker(stack[last.arg[1]])
  /\ \E i \in DOMAIN innerHTML : innerHTML[i] = EmOpen
  /\ last.pre.sincePush = "dirty"


\* C11: getCommand returns a command for every name; for a name registered
\* in neither registry it returns the default command of that name; the
\* call changes neither registry.
C11_DefaultCommand ==
  [][last'.op = "getCommand" =>
       LET n == last'.arg[1]
       IN /\ UNCHANGED registryVars
          /\ last'.ret[1] \in {"plugin", "patch", "default"}
          /\ (commands[n] = NoCommand /\ commandPatches[n] = NoCommand) =>
               last'.ret = DefaultCommand(n)]_vars

\* C11 witness: the lookup of "italic", registered nowhere, returned the
\* default command
C11_Witness ==
  /\ last.op = "getCommand"
  /\ last.arg = <<"italic">>
  /\ commands["italic"] = NoCommand
  /\ commandPatches["italic"] = NoCommand
  /\ last.ret = DefaultCommand("italic")


\* the argument holds an option that is not recognized, or a value of the
\* wrong type
Unrecognized(o) ==
  o.given /\ (o.props["spellcheck"] # Unset \/ o.props["debug"] \notin {Unset, "true", "false"})

\* C12, as stated: construction with an invalid or unrecognized option
\* fails with a ConfigurationError and does not complete.
C12_ConfigurationError ==
  (last.op = "new" /\ Unrecognized(last.arg)) =>
    (~last.ret.completed /\ last.ret.error = "ConfigurationError")

\* C12, amended: construction with an options object that holds an invalid
\* or unrecognized option completes without an error, and the option is
\* kept as given in this.options.
C12_UnrecognizedKept ==
  (last.op = "new" /\ Unrecognized(last.arg)) =>
    /\ last.ret.completed
    /\ last.ret.error = "none"
    /\ \A k \in OptionKeys : last.arg.props[k] # Unset => last.ret.options[k] = last.arg.props[k]

\* C12 witness: an instance was constructed with the unrecognized option
\* and the mistyped debug, both kept
C12_Witness ==
  /\ last.op = "new"
  /\ last.arg.given
  /\ last.arg.props["spellcheck"] = "on"
  /\ last.arg.props["debug"] = "yes"
  /\ last.ret.completed
  /\ last.ret.options["spellcheck"] = "on"
  /\ last.ret.options["debug"] = "yes"

\* C13, as stated: for every options argument, the omitted one included,
\* construction completes with allowBlockElements true and debug false
\* unless the caller gave a value, which is kept.
C13_DefaultsForEveryArgument ==
  last.op = "new" =>
    /\ last.ret.completed
    /\ \A k \in DOMAIN DefaultOptions :
         last.ret.options[k] =
           IF last.arg.given /\ last.arg.props[k] # Unset THEN last.arg.props[k]
           ELSE DefaultOptions[k]


\* the output of the k-th stage of fs, the input html being the output of
\* stage 0
RECURSIVE StageOutput(_, _, _)
StageOutput(fs, k, html) ==
  IF k = 0 THEN html ELSE ApplyStage(fs[k], StageOutput(fs, k - 1, html))

\* C14: format returns the output of the last stage, each stage having
\* received the output of the one registered before it and the first the
\* input; with no stage it returns the input; the list of stages is as it was.
C14_FormatLeftToRight ==
  last.op = "format" =>
    LET fs == last.arg[1]
        html == last.arg[2]
    IN /\ last.ret.html = StageOutput(fs, Len(fs), html)
       /\ fs = <<>> => last.ret.html = html
       /\ last.ret.formatters = fs

\* C14 witness: two stages whose order shows in the result: the
\* non-breaking space became a space, which the second stage removed
C14_Witness ==
  /\ last.op = "format"
  /\ last.arg[1] = <<"replaceNbspChars", "collapseSpaces">>
  /\ last.arg[2] = <<"a", Nbsp>>
  /\ last.ret.html = <<"a">>


\* C15: a focus event schedules a push only if it is the first one (and the
\* editor is not deactivated); the handler itself leaves the history alone,
\* the push runs as the deferred task; over the lifetime at most one push
\* comes from focus.
C15_OnePushFromFocus ==
  /\ dom.focusPushes + dom.pending <= 1
  /\ last.op = "focus" =>
       /\ stack = last.pre.stack
       /\ position = last.pre.position
       /\ sincePush = last.pre.sincePush
       /\ Count(last.effects, "setTimeout") = (IF dom.focusEvents = 1 /\ ~dom.deactivated THEN 1 ELSE 0)
  /\ dom.focusEvents = 0 => (dom.pending = 0 /\ dom.focusPushes = 0)

\* C15 witness: a second focus, after the deferred push of the first one
\* ran, scheduled nothing
C15_Witness ==
  /\ last.op = "focus"
  /\ dom.focusEvents = 2
  /\ dom.focusPushes = 1
  /\ dom.pending = 0
  /\ last.effects = <<>>
  /\ stack # <<>>

\* C16, as stated: once 'deactivated' was triggered, an 'input' event does
\* not invoke transactionManager.run().
C16_NoRunAfterDeactivated ==
  (last.op = "input" /\ dom.deactivated) => Count(last.effects, "run") = 0

\* C17, as stated: once 'deactivated' was triggered, a push that comes from
\* focus does not modify the undo stack.
C17_NoFocusPushAfterDeactivated ==
  (last.op = "deferredPush" /\ dom.deactivated) =>
    (stack = last.pre.stack /\ position = last.pre.position)


\* C18, as stated: when undo returned a snapshot, which was restored, and
\* pushHistory() is the next call, with no edit in between, it returns
\* false and leaves the stack and the position as they were.
C18_PushAfterUndoReturnsFalse ==
  [][(last.op = "undo" /\ last.ret # Null /\ last'.op = "pushHistory") =>
       (last'.ret = False /\ stack' = stack /\ position' = position)]_vars


\* C19: pushHistory() leaves the content and the selection as they were,
\* the markers it places for the snapshot are removed again and are placed
\* only when there is a range, and it emits no 'content-changed', whether
\* it pushed or not.
C19_PushHistoryFrame ==
  last.op = "pushHistory" =>
    /\ innerHTML = last.pre.html
    /\ selection = last.pre.selection
    /\ ~HasMarker(innerHTML)
    /\ Count(last.effects, "content-changed") = 0
    /\ Count(last.effects, "placeMarkers") =
         (IF last.ret = True /\ HasRange(last.pre.selection) THEN 1 ELSE 0)
    /\ Count(last.effects, "removeMarkers") = Count(last.effects, "placeMarkers")

\* C19 witness: a pushHistory with a range took a snapshot that carries the
\* marker, and the element has none
C19_Witness ==
  /\ last.op = "pushHistory"
  /\ last.pushed
  /\ HasRange(last.pre.selection)
  /\ HasMarker(stack[position + 1])
  /\ innerHTML # <<>>
  /\ ~HasMarker(innerHTML)


\* C20: setContent(c) emits one 'content-changed' and leaves the undo
\* stack and the position alone; the element gets the formatted c, with one
\* <br> appended before formatting in inline mode and nothing appended in
\* block mode; in inline mode, when the pipeline leaves its input as it is,
\* getContent() then returns c.
C20_SetContent ==
  last.op = "setContent" =>
    LET c == last.arg
    IN /\ Count(last.effects, "content-changed") = 1
       /\ stack = last.pre.stack
       /\ position = last.pre.position
       /\ allowBlockElements => innerHTML = Format(htmlFormatters, c)
       /\ ~allowBlockElements => innerHTML = Format(htmlFormatters, c \o <<Br>>)
       /\ (~allowBlockElements /\ Format(htmlFormatters, c \o <<Br>>) = c \o <<Br>>)
            => GetContent(innerHTML) = c

\* C20 witness: in inline mode, over a history that is not empty, a
\* content that ends with a <br> of its own came back from getContent
C20_Witness ==
  /\ last.op = "setContent"
  /\ ~allowBlockElements
  /\ stack # <<>>
  /\ last.arg = <<"a", Br>>
  /\ innerHTML = <<"a", Br, Br>>
  /\ GetContent(innerHTML) = last.arg

====
